---- MODULE Spec2Model ----
\* Model of bin/plugin.js of the Stream Deck "Apple Music Volume" plugin:
\* the osascript gate (getVolume / setVolume / drainSetQueue), the dial
\* rotation coalescer, the mute toggle, the poller and the message handler.
\* Node runs every callback to completion, so each action below is one
\* callback (a websocket message, a timer, an execFile completion) together
\* with the promise continuations it releases.
EXTENDS Integers, Sequences, FiniteSets, TLC

\* ---------------------------------------------------------------------------
\* Program constants and input domains
\* ---------------------------------------------------------------------------
ACTION_UUID == "com.dbhagen.apple-music-volume.control"

Unknown == -1

Null == -2

MinVolume == 0

MaxVolume == 100

UnknownBase == 50

\* Bounds of the exploration: setVolume calls followed, dialRotate events in
\* one debounce window, polls awaiting one read
MaxBurst == 3

MaxReq == 2

NarrowReq == 1

MaxWindow == 2

MaxWaiters == 2

Actions == {ACTION_UUID, "other.action"}

\* What the host, the user and Music do in one run: the dial contexts shown,
\* the raw settings.stepSize strings ("" is absent or empty), the tick counts
\* of one dialRotate event, the volumes Music holds at start or is set to by
\* others, and the events that happen at all: "press" (dial press, touch
\* tap), "close" (the socket closes), "spin" (dialRotate events arrive while
\* the flush timer is armed), "slow" (a poll is requested while the previous
\* read is still running), "fail" (an osascript call ends with an error or
\* with output that is no number), "others" (somebody else changes the volume
\* in Music)
BurstEnv ==
  [ name |-> "burst", contexts |-> {"c1"}, settings |-> { <<"1", "0">> },
    ticks |-> {1}, volumes |-> {0}, events |-> {"fail", "others"},
    maxReq |-> MaxBurst ]

GateEnv ==
  [ name |-> "gate", contexts |-> {"c1"}, settings |-> { <<"1", "0">> },
    ticks |-> {1}, volumes |-> {0, 40}, events |-> {"press", "fail", "others"},
    maxReq |-> MaxReq ]

SpinEnv ==
  [ name |-> "spin", contexts |-> {"c1"}, settings |-> { <<"3", "0">> },
    ticks |-> {-1, 1}, volumes |-> {40}, events |-> {"spin", "press"},
    maxReq |-> NarrowReq ]

StepEnv ==
  [ name |-> "step", contexts |-> {"c1"},
    settings |-> { <<"-", "5">>, <<"2">> },
    ticks |-> {1}, volumes |-> {40}, events |-> {"spin"},
    maxReq |-> NarrowReq ]

SessionEnv ==
  [ name |-> "sessions", contexts |-> {"c1", "c2"},
    settings |-> { <<"2">> },
    ticks |-> {1}, volumes |-> {0, 40},
    events |-> {"press", "close", "slow", "fail", "others"},
    maxReq |-> NarrowReq ]

Envs == {BurstEnv, GateEnv, SpinEnv, StepEnv, SessionEnv}

\* The environment of the runs that go quiet
QuietEnv ==
  [ name |-> "quiet", contexts |-> {"c1"}, settings |-> { <<"1", "0">> },
    ticks |-> {1}, volumes |-> {0, 40},
    events |-> {"press", "fail", "others"}, maxReq |-> NarrowReq ]

Contexts == {"c1", "c2"}

VARIABLES
  env,              \* the run's environment, fixed at start
  ws,               \* TRUE while the websocket is OPEN
  currentVolume,    \* -1 = unknown
  preMuteVolume,    \* non-null when muted
  pollInterval,     \* TRUE while the setInterval handle is set
  intervals,        \* number of setInterval timers that are live
  contexts,         \* context -> settings.stepSize
  pendingGet,       \* TRUE while the read promise is stored
  pendingSet,       \* TRUE while the write promise is stored
  nextSetValue,     \* latest requested value (coalesced) or Null
  accumulatedTicks,
  coalesceTimer,    \* TRUE while the flush timeout is armed
  lastStepSize,
  backendVolume,    \* Music's soundVolume
  reads,            \* osascript read processes running: [val, waiters]
  writes,           \* osascript write processes running: [val, applied]
  sent,             \* contexts that were sent setFeedback by the last callback
  display,          \* context -> last <<value, muted>> pushed, <<>> if none
  took,             \* branches the last callback took: "skip" (a poll held
                    \* back by a pending write), "clamp" (setVolume cut its
                    \* argument), "toggle" (toggleMute called setVolume),
                    \* "coalesced" (a flush of several events), "cancelled"
                    \* (a flush of ticks that sum to 0), "muted" (a flush that
                    \* found the mute marker set), "adopt" (a poll took over
                    \* the reading), "readFailed" (a read ended with an error
                    \* or unparsable output), "writeFailed" (a write ended
                    \* with an error)
  reqLog,           \* setVolume calls so far: [vol, resolved]
  issuedLog,        \* values handed to osascript writes so far
  resolved,         \* number of write callbacks run so far
  window,           \* ticks of the dialRotate events since the last flush
  windowStep,       \* step of the last dialRotate event
  windowMuted,      \* TRUE if one of them arrived while the state was Muted
  quiet             \* TRUE once the user and other controllers have stopped

vars ==
  << env, ws, currentVolume, preMuteVolume, pollInterval, intervals, contexts,
     pendingGet,
     pendingSet, nextSetValue, accumulatedTicks, coalesceTimer, lastStepSize,
     backendVolume, reads, writes, sent, display, took, reqLog, issuedLog, resolved,
     window, windowStep, windowMuted, quiet >>

\* The state a callback starts from; nothing has been sent by it yet
Cur ==
  [ ws |-> ws, currentVolume |-> currentVolume,
    preMuteVolume |-> preMuteVolume, pollInterval |-> pollInterval,
    intervals |-> intervals,
    contexts |-> contexts, pendingGet |-> pendingGet,
    pendingSet |-> pendingSet, nextSetValue |-> nextSetValue,
    accumulatedTicks |-> accumulatedTicks, coalesceTimer |-> coalesceTimer,
    lastStepSize |-> lastStepSize, backendVolume |-> backendVolume,
    reads |-> reads, writes |-> writes, sent |-> {}, display |-> display,
    took |-> {},
    reqLog |-> reqLog, issuedLog |-> issuedLog, resolved |-> resolved,
    window |-> window, windowStep |-> windowStep,
    windowMuted |-> windowMuted ]

\* The state a callback leaves behind
Commit(s) ==
  /\ ws' = s.ws
  /\ currentVolume' = s.currentVolume
  /\ preMuteVolume' = s.preMuteVolume
  /\ pollInterval' = s.pollInterval
  /\ intervals' = s.intervals
  /\ contexts' = s.contexts
  /\ pendingGet' = s.pendingGet
  /\ pendingSet' = s.pendingSet
  /\ nextSetValue' = s.nextSetValue
  /\ accumulatedTicks' = s.accumulatedTicks
  /\ coalesceTimer' = s.coalesceTimer
  /\ lastStepSize' = s.lastStepSize
  /\ backendVolume' = s.backendVolume
  /\ reads' = s.reads
  /\ writes' = s.writes
  /\ sent' = s.sent
  /\ display' = s.display
  /\ took' = s.took
  /\ reqLog' = s.reqLog
  /\ issuedLog' = s.issuedLog
  /\ resolved' = s.resolved
  /\ window' = s.window
  /\ windowStep' = s.windowStep
  /\ windowMuted' = s.windowMuted

\* The exploration stops where a bound would be exceeded
WithinBounds(s) ==
  /\ Len(s.reqLog) <= env.maxReq
  /\ Len(s.window) <= MaxWindow
  /\ \A i \in 1..Len(s.reads) : s.reads[i].waiters <= MaxWaiters

Max(a, b) == IF a >= b THEN a ELSE b

Min(a, b) == IF a <= b THEN a ELSE b

RemoveAt(q, i) == SubSeq(q, 1, i - 1) \o SubSeq(q, i + 1, Len(q))

RECURSIVE SumSeq(_)
SumSeq(q) == IF q = <<>> THEN 0 ELSE Head(q) + SumSeq(Tail(q))

\* ---------------------------------------------------------------------------
\* Feedback
\* ---------------------------------------------------------------------------
\* send(): dropped unless the socket is open
updateFeedback(s, context) ==
  LET vol == IF s.currentVolume >= 0 THEN s.currentVolume ELSE 0
      isMuted == s.preMuteVolume # Null
  IN  IF s.ws
        THEN [s EXCEPT !.sent = @ \cup {context},
                       !.display[context] = <<vol, isMuted>>]
        ELSE s

RECURSIVE FeedbackTo(_, _)
FeedbackTo(s, ctxs) ==
  IF ctxs = {} THEN s
  ELSE LET c == CHOOSE x \in ctxs : TRUE
       IN  FeedbackTo(updateFeedback(s, c), ctxs \ {c})

\* A broadcast that reaches nobody
updateAllFeedback_None(s) == s

updateAllFeedback(s) == FeedbackTo(s, DOMAIN s.contexts)

\* ---------------------------------------------------------------------------
\* AppleScript helpers
\* ---------------------------------------------------------------------------
\* getVolume that starts an osascript read on every call
getVolume_NoDedup(s) ==
  [s EXCEPT !.pendingGet = TRUE,
            !.reads = Append(@, [val |-> Null, waiters |-> 1])]

getVolume(s) ==
  IF s.pendingGet
    THEN [s EXCEPT !.reads[Len(s.reads)].waiters = @ + 1]
    ELSE [s EXCEPT !.pendingGet = TRUE,
                   !.reads = Append(@, [val |-> Null, waiters |-> 1])]

\* drainSetQueue without its in-flight check
drainSetQueue_NoGuard(s) ==
  IF s.nextSetValue = Null THEN s
  ELSE [s EXCEPT !.nextSetValue = Null,
                 !.pendingSet = TRUE,
                 !.writes = Append(@, [val |-> s.nextSetValue,
                                       applied |-> FALSE]),
                 !.issuedLog = Append(@, s.nextSetValue)]

drainSetQueue(s) ==
  IF s.pendingSet THEN s
  ELSE IF s.nextSetValue = Null THEN s
  ELSE [s EXCEPT !.nextSetValue = Null,
                 !.pendingSet = TRUE,
                 !.writes = Append(@, [val |-> s.nextSetValue,
                                       applied |-> FALSE]),
                 !.issuedLog = Append(@, s.nextSetValue)]

\* A clamp with no upper end
Clamp_NoUpper(vol) == Max(MinVolume, vol)

Clamp(vol) == Max(MinVolume, Min(MaxVolume, vol))

\* setVolume that leaves an already queued value in the queue
setVolume_KeepQueued(s, v) ==
  LET vol == Clamp(v)
      s1 == [s EXCEPT !.nextSetValue = IF @ = Null THEN vol ELSE @,
                      !.reqLog = Append(@, [vol |-> vol,
                                            resolved |-> s.resolved])]
      s2 == drainSetQueue(s1)
      s3 == [s2 EXCEPT !.currentVolume = vol]
  IN  updateAllFeedback(s3)

setVolume(s, v) ==
  LET vol == Clamp(v)
      s1 == [s EXCEPT !.nextSetValue = vol,
                      !.took = IF vol # v THEN @ \cup {"clamp"} ELSE @,
                      !.reqLog = Append(@, [vol |-> vol,
                                            resolved |-> s.resolved])]
      s2 == drainSetQueue(s1)
      s3 == [s2 EXCEPT !.currentVolume = vol]
  IN  updateAllFeedback(s3)

\* ---------------------------------------------------------------------------
\* Dial rotation coalescing
\* ---------------------------------------------------------------------------
\* onDialRotate that keeps the ticks of the last event only
onDialRotate_LastTicksOnly(s, ticks, stepSize) ==
  [s EXCEPT !.accumulatedTicks = ticks,
            !.lastStepSize = stepSize,
            !.coalesceTimer = TRUE,
            !.window = Append(@, ticks),
            !.windowStep = stepSize,
            !.windowMuted = @ \/ s.preMuteVolume # Null]

onDialRotate(s, ticks, stepSize) ==
  [s EXCEPT !.accumulatedTicks = @ + ticks,
            !.lastStepSize = stepSize,
            !.coalesceTimer = TRUE,
            !.window = Append(@, ticks),
            !.windowStep = stepSize,
            !.windowMuted = @ \/ s.preMuteVolume # Null]

\* A flush that leaves the mute marker alone
unmuteFirst_Skip(s) == s

\* If muted and user rotates, unmute first
unmuteFirst(s) ==
  IF s.preMuteVolume # Null
    THEN [s EXCEPT !.currentVolume = s.preMuteVolume,
                   !.preMuteVolume = Null]
    ELSE s

flushRotation(s) ==
  LET n == Len(s.window)
      s0 == [s EXCEPT !.coalesceTimer = FALSE, !.window = <<>>,
                      !.windowMuted = FALSE]
  IN  IF s0.accumulatedTicks = 0
        THEN [s0 EXCEPT !.took = IF n > 0 THEN @ \cup {"cancelled"} ELSE @]
      ELSE LET ticks == s0.accumulatedTicks
               s1 == [s0 EXCEPT
                        !.accumulatedTicks = 0,
                        !.took = @ \cup (IF n > 1 THEN {"coalesced"} ELSE {})
                                   \cup (IF s0.preMuteVolume # Null
                                           THEN {"muted"} ELSE {})]
               s2 == unmuteFirst(s1)
               base == IF s2.currentVolume >= 0 THEN s2.currentVolume
                                                ELSE UnknownBase
               delta == ticks * s2.lastStepSize
           IN  setVolume(s2, base + delta)

\* ---------------------------------------------------------------------------
\* Mute / unmute
\* ---------------------------------------------------------------------------
\* toggleMute that mutes at volume 0 too
toggleMute_MuteAtZero(s) ==
  IF s.preMuteVolume # Null
    THEN setVolume([s EXCEPT !.preMuteVolume = Null,
                             !.took = @ \cup {"toggle"}],
                   s.preMuteVolume)
  ELSE IF s.currentVolume >= 0
    THEN setVolume([s EXCEPT !.preMuteVolume = s.currentVolume,
                             !.took = @ \cup {"toggle"}],
                   0)
  ELSE s

\* toggleMute whose unmute keeps the volume shown instead of restoring
toggleMute_NoRestore(s) ==
  IF s.preMuteVolume # Null
    THEN setVolume([s EXCEPT !.preMuteVolume = Null,
                             !.took = @ \cup {"toggle"}],
                   s.currentVolume)
  ELSE IF s.currentVolume > 0
    THEN setVolume([s EXCEPT !.preMuteVolume = s.currentVolume,
                             !.took = @ \cup {"toggle"}],
                   0)
  ELSE s

toggleMute(s) ==
  IF s.preMuteVolume # Null
    THEN setVolume([s EXCEPT !.preMuteVolume = Null,
                             !.took = @ \cup {"toggle"}],
                   s.preMuteVolume)
  ELSE IF s.currentVolume > 0
    THEN setVolume([s EXCEPT !.preMuteVolume = s.currentVolume,
                             !.took = @ \cup {"toggle"}],
                   0)
  ELSE s

\* ---------------------------------------------------------------------------
\* Polling
\* ---------------------------------------------------------------------------
\* poll() up to its await
poll(s) == getVolume(s)

\* poll() that adopts the reading whatever is pending
pollResume_NoPendingCheck(s, vol) ==
  IF vol < 0 THEN s
  ELSE IF vol # s.currentVolume
    THEN LET s1 == [s EXCEPT !.currentVolume = vol]
             s2 == IF s1.preMuteVolume # Null /\ vol > 0
                     THEN [s1 EXCEPT !.preMuteVolume = Null]
                     ELSE s1
         IN  updateAllFeedback(s2)
    ELSE s

\* poll() that adopts the reading and leaves the mute marker as it is
pollResume_KeepMuteMarker(s, vol) ==
  IF vol < 0 THEN s
  ELSE IF s.nextSetValue = Null /\ ~s.pendingSet
    THEN IF vol # s.currentVolume
           THEN updateAllFeedback([s EXCEPT !.currentVolume = vol,
                                            !.took = @ \cup {"adopt"}])
           ELSE s
    ELSE IF vol # s.currentVolume
      THEN [s EXCEPT !.took = @ \cup {"skip"}]
      ELSE s

\* poll() that takes a reading of -1 for a volume
pollResume_NoNegativeCheck(s, vol) ==
  IF s.nextSetValue = Null /\ ~s.pendingSet
    THEN IF vol # s.currentVolume
           THEN LET s1 == [s EXCEPT !.currentVolume = vol,
                                    !.took = @ \cup {"adopt"}]
                    s2 == IF s1.preMuteVolume # Null /\ vol > 0
                            THEN [s1 EXCEPT !.preMuteVolume = Null]
                            ELSE s1
                IN  updateAllFeedback(s2)
           ELSE s
    ELSE s

\* poll() after its await resolved with vol
pollResume(s, vol) ==
  IF vol < 0 THEN s
  ELSE IF s.nextSetValue = Null /\ ~s.pendingSet
    THEN IF vol # s.currentVolume
           THEN LET s1 == [s EXCEPT !.currentVolume = vol,
                                    !.took = @ \cup {"adopt"}]
                    s2 == IF s1.preMuteVolume # Null /\ vol > 0
                            THEN [s1 EXCEPT !.preMuteVolume = Null]
                            ELSE s1
                IN  updateAllFeedback(s2)
           ELSE s
    ELSE IF vol # s.currentVolume
      THEN [s EXCEPT !.took = @ \cup {"skip"}]
      ELSE s

RECURSIVE ResumeWaiters(_, _, _)
ResumeWaiters(s, vol, n) ==
  IF n = 0 THEN s ELSE ResumeWaiters(pollResume(s, vol), vol, n - 1)

\* startPolling without its check for a poller that runs already
startPolling_NoGuard(s) ==
  [poll(s) EXCEPT !.pollInterval = TRUE, !.intervals = @ + 1]

startPolling(s) ==
  IF s.pollInterval THEN s
  ELSE [poll(s) EXCEPT !.pollInterval = TRUE, !.intervals = @ + 1]

\* clearInterval stops the timer whose handle pollInterval holds
stopPolling(s) ==
  IF s.pollInterval
    THEN [s EXCEPT !.pollInterval = FALSE, !.intervals = @ - 1]
    ELSE s

\* ---------------------------------------------------------------------------
\* settings.stepSize
\* ---------------------------------------------------------------------------
Digits == {"0", "1", "2", "3", "4", "5", "6", "7", "8", "9"}

DigitVal ==
  ("0" :> 0) @@ ("1" :> 1) @@ ("2" :> 2) @@ ("3" :> 3) @@ ("4" :> 4) @@
  ("5" :> 5) @@ ("6" :> 6) @@ ("7" :> 7) @@ ("8" :> 8) @@ ("9" :> 9)

\* The digits at the front of str, as a number; acc is the value so far
RECURSIVE DigitRun(_, _)
DigitRun(str, acc) ==
  IF str # <<>> /\ Head(str) \in Digits
    THEN DigitRun(Tail(str), 10 * acc + DigitVal[Head(str)])
    ELSE acc

RECURSIVE SkipSpace(_)
SkipSpace(str) ==
  IF str # <<>> /\ Head(str) = " " THEN SkipSpace(Tail(str)) ELSE str

\* parseInt(str, 10): <<n>>, or <<>> for NaN
parseInt(str) ==
  LET t == SkipSpace(str)
      neg == t # <<>> /\ Head(t) = "-"
      body == IF t # <<>> /\ Head(t) \in {"-", "+"} THEN Tail(t) ELSE t
  IN  IF body = <<>> \/ Head(body) \notin Digits THEN <<>>
      ELSE IF neg THEN << 0 - DigitRun(body, 0) >>
      ELSE << DigitRun(body, 0) >>

\* entry?.settings?.stepSize ? parseInt(stepSize, 10) || 1 : 1
StepOf(s, context) ==
  IF context \in DOMAIN s.contexts /\ s.contexts[context] # <<>>
    THEN LET p == parseInt(s.contexts[context])
         IN  IF p = <<>> \/ p[1] = 0 THEN 1 ELSE p[1]
    ELSE 1

\* ---------------------------------------------------------------------------
\* handleMessage
\* ---------------------------------------------------------------------------
MapSet(m, k, v) == [c \in DOMAIN m \cup {k} |-> IF c = k THEN v ELSE m[c]]

MapDelete(m, k) == [c \in DOMAIN m \ {k} |-> m[c]]

willAppear(s, context, action, stepSize) ==
  IF action # ACTION_UUID THEN s
  ELSE LET s1 == [s EXCEPT !.contexts = MapSet(@, context, stepSize)]
           s2 == startPolling(s1)
       IN  IF s2.currentVolume >= 0 THEN updateFeedback(s2, context) ELSE s2

\* The session is gone, so is what it showed
willDisappear(s, context) ==
  LET s1 == [s EXCEPT !.contexts = MapDelete(@, context),
                      !.display[context] = <<>>]
  IN  IF Cardinality(DOMAIN s1.contexts) = 0 THEN stopPolling(s1) ELSE s1

didReceiveSettings(s, context, action, stepSize) ==
  IF action # ACTION_UUID THEN s
  ELSE IF context \in DOMAIN s.contexts
    THEN [s EXCEPT !.contexts[context] = stepSize]
    ELSE s

dialRotate(s, context, action, ticks) ==
  IF action # ACTION_UUID THEN s
  ELSE onDialRotate(s, ticks, StepOf(s, context))

dialDown(s, action) == IF action # ACTION_UUID THEN s ELSE toggleMute(s)

touchTap(s, action) == IF action # ACTION_UUID THEN s ELSE toggleMute(s)

\* ---------------------------------------------------------------------------
\* Callbacks: one action per event the Node event loop delivers
\* ---------------------------------------------------------------------------
Step(s) == WithinBounds(s) /\ Commit(s) /\ UNCHANGED << env, quiet >>

\* The host sends an action's events for a context between its willAppear and
\* its willDisappear
OnWillAppear ==
  /\ ws
  /\ pendingGet /\ ~pollInterval => "slow" \in env.events
  /\ \E c \in env.contexts, a \in Actions, st \in env.settings :
       Step(willAppear(Cur, c, a, st))

OnWillDisappear ==
  /\ ws
  /\ \E c \in DOMAIN contexts : Step(willDisappear(Cur, c))

OnDidReceiveSettings ==
  /\ ws
  /\ \E c \in DOMAIN contexts, a \in Actions, st \in env.settings :
       Step(didReceiveSettings(Cur, c, a, st))

OnDialRotate ==
  /\ ws
  /\ coalesceTimer => "spin" \in env.events
  /\ \E c \in DOMAIN contexts, a \in Actions, t \in env.ticks :
       Step(dialRotate(Cur, c, a, t))

OnDialDown ==
  /\ ws
  /\ "press" \in env.events
  /\ \E c \in DOMAIN contexts, a \in Actions : Step(dialDown(Cur, a))

OnTouchTap ==
  /\ ws
  /\ "press" \in env.events
  /\ \E c \in DOMAIN contexts, a \in Actions : Step(touchTap(Cur, a))

\* ws.on("close")
OnClose ==
  /\ ws
  /\ "close" \in env.events
  /\ Step(stopPolling([Cur EXCEPT !.ws = FALSE]))

\* setTimeout(flushRotation, COALESCE_MS) fires
FlushTimer ==
  /\ coalesceTimer
  /\ Step(flushRotation(Cur))

\* setInterval(poll, POLL_MS) fires
PollTimer ==
  /\ intervals > 0
  /\ pendingGet => "slow" \in env.events
  /\ Step(poll(Cur))

\* Music evaluates soundVolume() for a running read
ReadSample ==
  \E i \in 1..Len(reads) :
    /\ reads[i].val = Null
    /\ Step([Cur EXCEPT !.reads[i].val = backendVolume])

\* execFile callback of a read: ok (a number was printed), nan (output did
\* not parse) or err (exit code, timeout); then the awaiting polls resume
ReadDone(i, outcome) ==
  LET r == reads[i]
      s1 == [Cur EXCEPT !.pendingGet = FALSE, !.reads = RemoveAt(@, i),
                        !.took = IF outcome = "ok" THEN @
                                 ELSE @ \cup {"readFailed"}]
  IN  /\ outcome = "ok" => r.val # Null
      /\ outcome # "ok" => "fail" \in env.events
      /\ Step(CASE outcome = "err" -> s1
                [] outcome = "nan" -> ResumeWaiters(s1, Unknown, r.waiters)
                [] OTHER -> ResumeWaiters(s1, r.val, r.waiters))

ReadComplete ==
  \E i \in 1..Len(reads), outcome \in {"ok", "nan", "err"} :
    ReadDone(i, outcome)

\* Music assigns soundVolume for a running write
WriteApply ==
  \E i \in 1..Len(writes) :
    /\ ~writes[i].applied
    /\ Step([Cur EXCEPT !.writes[i].applied = TRUE,
                        !.backendVolume = writes[i].val])

\* execFile callback of a write: success needs the assignment to have run,
\* an error (exit code, timeout) may come before or after it
\* A write callback that leaves the in-flight marker set on an error
WriteDone_KeepPendingOnError(i, err) ==
  LET s1 == [Cur EXCEPT !.pendingSet = err,
                        !.writes = RemoveAt(@, i),
                        !.resolved = @ + 1,
                        !.took = IF err THEN @ \cup {"writeFailed"} ELSE @]
  IN  /\ ~err => writes[i].applied
      /\ err => "fail" \in env.events
      /\ Step(drainSetQueue(s1))

\* A write callback that returns on an error before it drains the queue
WriteDone_NoDrainOnError(i, err) ==
  LET s1 == [Cur EXCEPT !.pendingSet = FALSE,
                        !.writes = RemoveAt(@, i),
                        !.resolved = @ + 1,
                        !.took = IF err THEN @ \cup {"writeFailed"} ELSE @]
  IN  /\ ~err => writes[i].applied
      /\ err => "fail" \in env.events
      /\ Step(IF err THEN s1 ELSE drainSetQueue(s1))

WriteDone(i, err) ==
  LET s1 == [Cur EXCEPT !.pendingSet = FALSE,
                        !.writes = RemoveAt(@, i),
                        !.resolved = @ + 1,
                        !.took = IF err THEN @ \cup {"writeFailed"} ELSE @]
  IN  /\ ~err => writes[i].applied
      /\ err => "fail" \in env.events
      /\ Step(drainSetQueue(s1))

WriteComplete ==
  \E i \in 1..Len(writes), err \in BOOLEAN : WriteDone(i, err)

\* Somebody else changes the volume in Music
ExternalChange ==
  \E v \in env.volumes :
    /\ "others" \in env.events
    /\ v # backendVolume
    /\ Step([Cur EXCEPT !.backendVolume = v])

\* The state after the module is loaded and the socket has opened, in a run
\* of environment e
Start(e) ==
  /\ env = e
  /\ ws = TRUE
  /\ currentVolume = Unknown
  /\ preMuteVolume = Null
  /\ pollInterval = FALSE
  /\ intervals = 0
  /\ contexts = << >>
  /\ pendingGet = FALSE
  /\ pendingSet = FALSE
  /\ nextSetValue = Null
  /\ accumulatedTicks = 0
  /\ coalesceTimer = FALSE
  /\ lastStepSize = 1
  /\ backendVolume \in env.volumes
  /\ reads = << >>
  /\ writes = << >>
  /\ sent = {}
  /\ display = [c \in Contexts |-> << >>]
  /\ took = {}
  /\ reqLog = << >>
  /\ issuedLog = << >>
  /\ resolved = 0
  /\ window = << >>
  /\ windowStep = 1
  /\ windowMuted = FALSE
  /\ quiet = FALSE

Init == \E e \in Envs : Start(e)

Turning ==
  \/ OnWillAppear
  \/ OnWillDisappear
  \/ OnDidReceiveSettings
  \/ OnDialRotate
  \/ FlushTimer
  \/ PollTimer
  \/ ReadSample
  \/ ReadComplete
  \/ WriteApply
  \/ WriteComplete
  \/ ExternalChange

Next == Turning \/ OnDialDown \/ OnTouchTap \/ OnClose

Spec == Init /\ [][Next]_vars

\* execFile is given timeout: 5000, so the callback of a running write is
\* always called in the end
BurstInit == Init /\ env = BurstEnv

FairSpec == BurstInit /\ [][Turning]_vars /\ WF_vars(WriteComplete)

\* ---------------------------------------------------------------------------
\* Properties
\* ---------------------------------------------------------------------------
GateIdle == ~pendingSet /\ nextSetValue = Null

LastRequested == IF reqLog = <<>> THEN Null ELSE reqLog[Len(reqLog)].vol

LastIssued == IF issuedLog = <<>> THEN Null ELSE issuedLog[Len(issuedLog)]

\* C1: at most one osascript write is running in every reachable state, and
\* the pendingSet marker is set exactly while it runs
C1_OneWriteInFlight ==
  /\ Len(writes) <= 1
  /\ pendingSet <=> Len(writes) = 1

\* A second write was issued after the first resolved, with a newer target
\* waiting behind it
C1_Witness ==
  /\ Len(writes) = 1
  /\ nextSetValue # Null
  /\ resolved >= 1

\* C2: the latest requested target is either the queued one, behind a running
\* write, or the last one issued; and a queued target is issued in the end,
\* so that the last write issued carries the last target requested
C2_LatestTargetWins ==
  /\ [](reqLog # <<>> =>
          IF nextSetValue = Null
            THEN LastIssued = LastRequested
            ELSE nextSetValue = LastRequested /\ pendingSet)
  /\ (nextSetValue # Null) ~>
       (nextSetValue = Null /\ LastIssued = LastRequested)

\* Three targets were requested, the second was still queued when the third
\* came, and the write issued last carries the third
C2_Witness ==
  /\ Len(reqLog) = 3
  /\ reqLog[3].resolved = reqLog[2].resolved
  /\ reqLog[2].vol # reqLog[3].vol
  /\ Len(issuedLog) = 2
  /\ nextSetValue = Null
  /\ LastIssued = reqLog[3].vol

\* 10, 20 and 30 were requested, in this order and from an idle gate, before
\* the first write resolved, and nothing else before it resolved
C3_Scenario ==
  /\ Len(reqLog) >= 3
  /\ \A i \in 1..3 : reqLog[i].vol = 10 * i /\ reqLog[i].resolved = 0
  /\ Len(reqLog) > 3 => reqLog[4].resolved >= 1

\* C3 as stated: once the gate is idle again, one write was made, of 30
C3_ExactlyOneWrite ==
  C3_Scenario /\ Len(reqLog) = 3 /\ GateIdle => issuedLog = <<30>>

\* C3 as amended: 10 is issued at once, 30 when the write of 10 resolves, and
\* 20 is never issued: two writes are made
C3_FirstAndLast ==
  C3_Scenario =>
    /\ resolved = 0 => issuedLog = <<10>>
    /\ resolved >= 1 => SubSeq(issuedLog, 1, 2) = <<10, 30>>
    /\ Len(reqLog) = 3 /\ GateIdle => issuedLog = <<10, 30>>

C3_Witness ==
  /\ C3_Scenario
  /\ GateIdle
  /\ issuedLog = <<10, 30>>
  /\ resolved = 2

\* C4: at most one osascript process, read or write, is running in every
\* reachable state
C4_OneCommandInFlight == Len(reads) + Len(writes) <= 1

\* A read callback runs in this step
ReadCompletes == Len(reads') < Len(reads)

\* C5: a poll whose read completes while a write is running or a target is
\* queued changes neither the volume nor the mute marker and sends no
\* feedback
C5_PollDoesNotClobber ==
  [][ReadCompletes /\ (pendingSet \/ nextSetValue # Null) =>
       /\ currentVolume' = currentVolume
       /\ preMuteVolume' = preMuteVolume
       /\ sent' = {}]_vars

\* A poll has just read a volume other than the local one and was held back
\* by a write that is still running
C5_Witness ==
  /\ "skip" \in took
  /\ pendingSet
  /\ currentVolume # backendVolume

\* The flush timer fires in this step
FlushFires == coalesceTimer /\ ~coalesceTimer'

WindowSum == SumSeq(window)

\* The volume a flush starts from: the pre-mute volume if muted, else the
\* current volume, else 50 if the volume is unknown
Baseline ==
  IF preMuteVolume # Null THEN preMuteVolume
  ELSE IF currentVolume >= 0 THEN currentVolume
  ELSE 50

\* clamp(Baseline + (t1 + ... + tn) * s_last, 0, 100)
WindowTarget ==
  LET raw == Baseline + WindowSum * windowStep
  IN  IF raw < 0 THEN 0 ELSE IF raw > 100 THEN 100 ELSE raw

OneRequestOfWindowTarget ==
  /\ Len(reqLog') = Len(reqLog) + 1
  /\ LastRequested' = WindowTarget

\* C6 as stated: the flush of any window makes exactly one write request,
\* whose target is clamp(baseline + (t1 + ... + tn) * s_last, 0, 100)
C6_FlushRequestsOnce == [][FlushFires => OneRequestOfWindowTarget]_vars

\* C6 as amended: the flush of a window whose ticks do not sum to 0 makes
\* exactly one write request, with that target; the flush of a window whose
\* ticks sum to 0 makes none and leaves volume and mute marker alone
C6_FlushRequestsOnceUnlessZero ==
  [][FlushFires =>
       IF WindowSum # 0
         THEN OneRequestOfWindowTarget
         ELSE /\ reqLog' = reqLog
              /\ currentVolume' = currentVolume
              /\ preMuteVolume' = preMuteVolume]_vars

\* Two rotation events of one window were flushed as one request, of
\* 40 + (1 + 1) * 2
C6_Witness ==
  /\ "coalesced" \in took
  /\ Len(reqLog) = 1
  /\ LastRequested = 44
  /\ LastIssued = 44

\* The state two toggleMute calls in a row lead to
TwoToggles == toggleMute(toggleMute(Cur))

TwoTogglesLastRequested ==
  IF TwoToggles.reqLog = <<>> THEN Null
  ELSE TwoToggles.reqLog[Len(TwoToggles.reqLog)].vol

\* C7 as stated: from any state with a known volume V, two toggles in a row
\* end Unmuted at V, and the last write requested carries V
C7_RoundTripFromAnyState ==
  currentVolume >= 0 =>
    /\ TwoToggles.currentVolume = currentVolume
    /\ TwoToggles.preMuteVolume = Null
    /\ TwoTogglesLastRequested = currentVolume

\* C7 as amended: from an Unmuted state with V > 0, two toggles in a row end
\* Unmuted at V after requesting 0 and then V; from an Unmuted state with
\* volume 0 they request nothing and change nothing; from a Muted state they
\* end in the same Muted state, after requesting the pre-mute volume and
\* then 0
C7_RoundTrip ==
  LET n == Len(reqLog)
      two == TwoToggles
  IN  /\ preMuteVolume = Null /\ currentVolume > 0 =>
           /\ two.currentVolume = currentVolume
           /\ two.preMuteVolume = Null
           /\ Len(two.reqLog) = n + 2
           /\ two.reqLog[n + 1].vol = 0
           /\ two.reqLog[n + 2].vol = currentVolume
      /\ preMuteVolume = Null /\ currentVolume <= 0 => two = Cur
      /\ preMuteVolume # Null =>
           /\ two.currentVolume = currentVolume
           /\ two.preMuteVolume = preMuteVolume
           /\ Len(two.reqLog) = n + 2
           /\ two.reqLog[n + 1].vol = preMuteVolume
           /\ two.reqLog[n + 2].vol = 0

\* The dial was pressed twice with no write request between the presses:
\* 0 was requested, then 40 again, and the state is Unmuted at 40
C7_Witness ==
  /\ "toggle" \in took
  /\ Len(reqLog) = 2
  /\ reqLog[1].vol = 0
  /\ reqLog[2].vol = 40
  /\ currentVolume = 40
  /\ preMuteVolume = Null

Muted == preMuteVolume # Null

\* C8 as stated: once a rotation event arrived while the state was Muted,
\* and the events of its window have nonzero tick counts, the flush leaves
\* the state Unmuted and requests the rotated volume, computed from the
\* pre-mute volume
C8_RotateUnmutes ==
  [][FlushFires /\ windowMuted
       /\ (\A i \in 1..Len(window) : window[i] # 0) =>
       /\ preMuteVolume' = Null
       /\ Len(reqLog') = Len(reqLog) + 1
       /\ Muted => LastRequested' = WindowTarget]_vars

\* C8 as amended: the same if the ticks of the window do not sum to 0; if
\* they sum to 0 the flush leaves the mute marker as it is
C8_RotateUnmutesUnlessZero ==
  [][FlushFires /\ (windowMuted \/ Muted) =>
       IF WindowSum # 0
         THEN /\ preMuteVolume' = Null
              /\ Len(reqLog') = Len(reqLog) + 1
              /\ Muted => /\ LastRequested' = WindowTarget
                          /\ currentVolume' = WindowTarget
         ELSE preMuteVolume' = preMuteVolume]_vars

\* Muted at 40, then one tick of step 10: Unmuted at 50
C8_Witness ==
  /\ "muted" \in took
  /\ preMuteVolume = Null
  /\ Len(reqLog) = 2
  /\ reqLog[1].vol = 0
  /\ reqLog[2].vol = 50
  /\ currentVolume = 50

VolumeRange == 0..100

\* C9: the stored volume is Unknown or in 0..100, and so is every value
\* queued for, handed to or remembered from a write
C9_VolumeInRange ==
  /\ currentVolume \in {Unknown} \cup VolumeRange
  /\ preMuteVolume \in {Null} \cup VolumeRange
  /\ nextSetValue \in {Null} \cup VolumeRange
  /\ \A i \in 1..Len(issuedLog) : issuedLog[i] \in VolumeRange
  /\ \A i \in 1..Len(writes) : writes[i].val \in VolumeRange
  /\ \A i \in 1..Len(reqLog) : reqLog[i].vol \in VolumeRange

\* A rotation past the top of the range was cut to 100 and issued as 100
C9_Witness ==
  /\ "clamp" \in took
  /\ currentVolume = 100
  /\ LastIssued = 100

Sessions == DOMAIN contexts

\* Polls that await a read
RECURSIVE Awaiting(_)
Awaiting(q) == IF q = <<>> THEN 0 ELSE Head(q).waiters + Awaiting(Tail(q))

\* C10: while the socket is open, one poll timer is armed exactly when a
\* session is registered, and never more than one; the step that registers
\* the first session arms it and has a poll await a backend read at once; it
\* is disarmed only by the step that removes the last session (or by the
\* socket closing)
C10_PollerLifecycle ==
  /\ [](/\ intervals \in {0, 1}
        /\ pollInterval <=> intervals = 1
        /\ ws => (pollInterval <=> Sessions # {}))
  /\ [][Sessions = {} /\ Sessions' # {} =>
          /\ pollInterval'
          /\ pendingGet'
          /\ Awaiting(reads') = Awaiting(reads) + 1]_vars
  /\ [][pollInterval /\ ~pollInterval' => Sessions' = {} \/ ~ws']_vars

\* Two sessions are registered, one poller runs and its first read was
\* adopted
C10_Witness ==
  /\ ws
  /\ Cardinality(Sessions) = 2
  /\ intervals = 1
  /\ currentVolume # Unknown

\* C11: the step a rotation event hands to onDialRotate is an integer in
\* 1..25, whatever settings.stepSize the session holds
C11_StepInRange == lastStepSize \in 1..25

\* C12: while the socket is open and the volume is known, what was last
\* pushed to each registered session is the current (volume, muted) state;
\* a step that changes the volume or the mute marker sends feedback to every
\* registered session; a session registered while the volume is known is
\* sent feedback in the same step
C12_DisplayConsistent ==
  /\ [](ws /\ currentVolume >= 0 =>
          \A c \in Sessions : display[c] = <<currentVolume, Muted>>)
  /\ [][ws' /\ (currentVolume' # currentVolume
                  \/ preMuteVolume' # preMuteVolume) =>
          sent' = Sessions']_vars
  /\ [][ws' /\ currentVolume >= 0 =>
          \A c \in Sessions' \ Sessions : c \in sent']_vars

\* Two sessions are registered and a mute was just pushed to both
C12_Witness ==
  /\ ws
  /\ Cardinality(Sessions) = 2
  /\ sent = Sessions
  /\ Muted
  /\ \A c \in Sessions : display[c] = <<0, TRUE>>

\* A write callback runs in this step with an error
WriteFails == resolved' = resolved + 1 /\ "writeFailed" \in took'

\* C13: the step in which a write fails clears the in-flight marker and
\* drains again: a target queued meanwhile is issued as the next write, and
\* if none is queued no write is issued, so the failed value is not retried
C13_FailedWriteDrains ==
  [][WriteFails =>
       IF nextSetValue = Null
         THEN /\ ~pendingSet'
              /\ writes' = <<>>
              /\ issuedLog' = issuedLog
              /\ nextSetValue' = Null
         ELSE /\ pendingSet'
              /\ nextSetValue' = Null
              /\ issuedLog' = Append(issuedLog, nextSetValue)
              /\ Len(writes') = 1
              /\ writes'[1].val = nextSetValue
              /\ ~writes'[1].applied]_vars

\* The first write has just failed and the target queued behind it, another
\* value, is running as the second write
C13_Witness ==
  /\ "writeFailed" \in took
  /\ resolved = 1
  /\ pendingSet
  /\ Len(issuedLog) = 2
  /\ issuedLog[2] # issuedLog[1]
  /\ Len(writes) = 1
  /\ writes[1].val = issuedLog[2]

\* A read callback runs in this step with an error or unparsable output
ReadFails == ReadCompletes /\ "readFailed" \in took'

\* C14: the step in which a read fails changes neither the volume, nor the
\* mute marker, nor the running or queued write, and sends no feedback
C14_FailedReadLeavesState ==
  [][ReadFails =>
       /\ currentVolume' = currentVolume
       /\ preMuteVolume' = preMuteVolume
       /\ nextSetValue' = nextSetValue
       /\ pendingSet' = pendingSet
       /\ writes' = writes
       /\ issuedLog' = issuedLog
       /\ sent' = {}
       /\ display' = display]_vars

\* A read has just failed with the gate idle; the known volume 40 stays
\* although Music is at 0
C14_Witness ==
  /\ "readFailed" \in took
  /\ GateIdle
  /\ currentVolume = 40
  /\ backendVolume = 0

\* ---------------------------------------------------------------------------
\* A run in which the user and the other controllers stop at some moment,
\* with a session registered and the socket open: from then on only timers
\* and execFile callbacks run
\* ---------------------------------------------------------------------------
ReadSucceeds == \E i \in 1..Len(reads) : ReadDone(i, "ok")

Busy == Turning \/ OnDialDown \/ OnTouchTap

GoQuiet ==
  /\ ~quiet
  /\ ws
  /\ DOMAIN contexts # {}
  /\ quiet' = TRUE
  /\ Commit(Cur)
  /\ UNCHANGED env

Settling ==
  \/ FlushTimer
  \/ PollTimer
  \/ ReadSample
  \/ ReadComplete
  \/ WriteApply
  \/ WriteComplete

ReconcileNext ==
  \/ ~quiet /\ Busy
  \/ GoQuiet
  \/ quiet /\ Settling

ReconcileInit == Start(QuietEnv)

\* setInterval keeps calling poll, execFile (timeout: 5000) always calls
\* back, and reads succeed again and again
ReconcileSpec ==
  /\ ReconcileInit
  /\ [][ReconcileNext]_vars
  /\ WF_vars(PollTimer)
  /\ WF_vars(ReadComplete)
  /\ WF_vars(WriteComplete)
  /\ SF_vars(ReadSample)
  /\ SF_vars(ReadSucceeds)

\* C15: once input and external changes have stopped with a session
\* registered, the local volume becomes equal to the volume in Music and
\* stays equal
C15_EventuallyReconciled == quiet ~> [](currentVolume = backendVolume)

\* After the quiet moment a poll has taken over Music's volume, which is not
\* the target requested last (its write failed, or somebody else changed the
\* volume after it)
C15_Witness ==
  /\ quiet
  /\ "adopt" \in took
  /\ currentVolume = backendVolume
  /\ reqLog # <<>>
  /\ LastRequested # currentVolume
  /\ GateIdle

\* The state one toggleMute call leads to
OneToggle == toggleMute(Cur)

\* C16: toggleMute, from Unmuted with V > 0, leads to volume 0 with the
\* marker holding V and requests a write of 0; from Muted(P) it leads to
\* Unmuted with volume P and requests a write of P; from Unmuted with volume
\* 0 it changes nothing and requests nothing
C16_ToggleTransitions ==
  LET n == Len(reqLog)
      one == OneToggle
  IN  /\ ~Muted /\ currentVolume > 0 =>
           /\ one.currentVolume = 0
           /\ one.preMuteVolume = currentVolume
           /\ Len(one.reqLog) = n + 1
           /\ one.reqLog[n + 1].vol = 0
      /\ Muted =>
           /\ one.currentVolume = preMuteVolume
           /\ one.preMuteVolume = Null
           /\ Len(one.reqLog) = n + 1
           /\ one.reqLog[n + 1].vol = preMuteVolume
      /\ ~Muted /\ currentVolume = 0 => one = Cur

\* The dial was pressed at 40 and pressed again: the unmute has just
\* requested 40 and its write waits behind the write of 0
C16_Witness ==
  /\ "toggle" \in took
  /\ ~Muted
  /\ currentVolume = 40
  /\ issuedLog = <<0>>
  /\ nextSetValue = 40

\* A read callback runs in this step with a number read from Music
ReadSucceeded == ReadCompletes /\ "readFailed" \notin took'

\* The step adopts a nonzero reading with no write running or queued
AdoptsNonzero ==
  /\ ReadSucceeded
  /\ GateIdle
  /\ reads[1].val > 0
  /\ currentVolume' = reads[1].val

\* C17: a read that completes with a nonzero value while the state is Muted
\* and no write is running or queued leaves the state Unmuted at that
\* value; the marker is cleared only by a toggle, a rotation flush or such a
\* reading, it is set only by a toggle at a volume above 0, which it then
\* holds, and it is not overwritten while set
C17_ExternalUnmute ==
  /\ [][ReadSucceeded /\ Muted /\ GateIdle /\ reads[1].val > 0 =>
          /\ preMuteVolume' = Null
          /\ currentVolume' = reads[1].val]_vars
  /\ [][Muted /\ ~Muted' =>
          \/ "toggle" \in took' /\ currentVolume' = preMuteVolume
          \/ "muted" \in took' /\ FlushFires
          \/ AdoptsNonzero]_vars
  /\ [][~Muted /\ Muted' =>
          /\ "toggle" \in took'
          /\ currentVolume > 0
          /\ preMuteVolume' = currentVolume]_vars
  /\ [][Muted /\ Muted' => preMuteVolume' = preMuteVolume]_vars

\* After a mute (the only way to request 0 in this environment) a poll has
\* just read 40 and the state is Unmuted at 40
C17_Witness ==
  /\ env = GateEnv
  /\ "adopt" \in took
  /\ ~Muted
  /\ currentVolume = 40
  /\ reqLog # <<>>
  /\ LastRequested = 0
  /\ \A c \in Sessions : display[c] = <<40, FALSE>>

\* A poll starts to await a read in this step
ReadRequested == Awaiting(reads') > Awaiting(reads)

\* C18: at most one osascript read runs, and pendingGet is set exactly
\* while it runs; a read requested while one runs starts no process and
\* awaits the running one; a read requested while none runs starts a fresh
\* one; and the callback of a read resumes every poll that awaits it
C18_SingleFlightReads ==
  /\ [](Len(reads) <= 1 /\ (pendingGet <=> Len(reads) = 1))
  /\ [][ReadRequested /\ pendingGet =>
          /\ Len(reads') = 1
          /\ reads'[1].val = reads[1].val
          /\ reads'[1].waiters = reads[1].waiters + 1]_vars
  /\ [][ReadRequested /\ ~pendingGet =>
          reads' = << [val |-> Null, waiters |-> 1] >>]_vars
  /\ [][ReadCompletes => reads' = <<>> /\ ~pendingGet']_vars

\* Two polls await one read, which Music has answered already
C18_Witness ==
  /\ Len(reads) = 1
  /\ reads[1].waiters = 2
  /\ reads[1].val # Null

\* C19: while the mute marker is set the local volume is 0 and the marker
\* holds a volume in 1..100
C19_MutedMeansZero ==
  Muted => currentVolume = 0 /\ preMuteVolume \in 1..100

\* Muted at 40, the write of 0 has been made, and a poll has just read 0
\* again
C19_Witness ==
  /\ Muted
  /\ preMuteVolume = 40
  /\ currentVolume = 0
  /\ backendVolume = 0
  /\ GateIdle
  /\ resolved = 1
  /\ reads = <<>>
  /\ ~coalesceTimer

\* ---------------------------------------------------------------------------
\* A run in which nobody else changes the volume in Music and no osascript
\* call fails
\* ---------------------------------------------------------------------------
WriteSucceeds == \E i \in 1..Len(writes) : WriteDone(i, FALSE)

CalmNext ==
  \/ OnWillAppear
  \/ OnWillDisappear
  \/ OnDidReceiveSettings
  \/ OnDialRotate
  \/ OnDialDown
  \/ OnTouchTap
  \/ FlushTimer
  \/ PollTimer
  \/ ReadSample
  \/ ReadSucceeds
  \/ WriteApply
  \/ WriteSucceeds

CalmInit == Start(SpinEnv)

CalmSpec == CalmInit /\ [][CalmNext]_vars

\* C20: when nobody else changes the volume and no call fails, the callback
\* of a read changes neither a known local volume nor the mute marker
C20_NoStaleAdoption ==
  [][ReadCompletes /\ currentVolume >= 0 =>
       /\ currentVolume' = currentVolume
       /\ preMuteVolume' = preMuteVolume]_vars

====
